---- MODULE Spec2Model ----
(***************************************************************************)
(* The position-state layer of the andrej chess engine (src/main.rs):      *)
(* the coordinate model (File, Rank, Position), the 120-cell mailbox       *)
(* board, Board::new and the board rendering run by main.                  *)
(*                                                                         *)
(* Spec       follows main: Board::new statement by statement, then the    *)
(*            rendering of the returned board.                             *)
(* SpecCoord  applies the pure coordinate functions (Position::to_index    *)
(*            and Display for Position) to every (file, rank).             *)
(***************************************************************************)
EXTENDS Integers, Sequences, FiniteSets, TLC

VARIABLES
    pc,                 \* position of main / Board::new / Display::fmt
    squares,            \* Board.squares : [Square; 120]
    turn,               \* Board.turn
    en_passant_target,  \* Board.en_passant_target : Option<Position>
    pawns,              \* Board.pawns : ColoredData<Bitboard>
    pieces,             \* Board.pieces : ColoredData<PieceKindCounts>
    big_pieces,         \* Board.big_pieces : ColoredData<u8>
    major_pieces,       \* Board.major_pieces : ColoredData<u8>
    minor_pieces,       \* Board.minor_pieces : ColoredData<u8>
    kings,              \* Board.kings : ColoredPair<Position>
    position_key,       \* Board.position_key : ZobristKey
    castling_rights,    \* Board.castling_rights : u8
    fifty_moves,        \* Board.fifty_moves : u8
    history,            \* Board.history : Vec<Undo>
    ply,                \* Board.ply : u32
    new_rank,           \* Board::new, `rank` of the clearing loop
    new_file,           \* Board::new, `file` of the clearing loop
    new_i,              \* Board::new, position in the array a placement loop iterates
    fmt_rank,           \* Display for Board, `rank`
    fmt_file,           \* Display for Board, `file`
    fmt_out,            \* Display for Board, what was written to the formatter
    fmt_read,           \* Display for Board, the indices of squares read so far
    pos,                \* a Position under test (SpecCoord)
    pos_index,          \* <<pos.to_index()>> once called, <<>> before
    pos_string          \* <<pos.to_string()>> once called, <<>> before

board_vars ==
    <<squares, turn, en_passant_target, pawns, pieces, big_pieces, major_pieces,
      minor_pieces, kings, position_key, castling_rights, fifty_moves, history, ply>>

new_vars == <<new_rank, new_file, new_i>>

fmt_vars == <<fmt_rank, fmt_file, fmt_out, fmt_read>>

coord_vars == <<pos, pos_index, pos_string>>

vars == <<pc, board_vars, new_vars, fmt_vars, coord_vars>>

None == "None"

----------------------------------------------------------------------------
(* Machine integers *)

U8(n) == n % 256

\* Mutant: bitwise and.
RECURSIVE BitAnd(_, _)
BitAnd(a, b) ==
    IF a = 0 \/ b = 0 THEN 0
    ELSE (IF a % 2 = 1 /\ b % 2 = 1 THEN 1 ELSE 0) + 2 * BitAnd(a \div 2, b \div 2)

RECURSIVE BitOr(_, _)
BitOr(a, b) ==
    IF a = 0 /\ b = 0 THEN 0
    ELSE (IF a % 2 = 1 \/ b % 2 = 1 THEN 1 ELSE 0) + 2 * BitOr(a \div 2, b \div 2)

\* `b as char` for a byte b: the ASCII characters the program can produce.
Char(b) ==
    CASE b = 49 -> "1" [] b = 50 -> "2" [] b = 51 -> "3" [] b = 52 -> "4"
      [] b = 53 -> "5" [] b = 54 -> "6" [] b = 55 -> "7" [] b = 56 -> "8"
      [] b = 57 -> "9" [] b = 48 -> "0"
      [] b = 97 -> "a" [] b = 98 -> "b" [] b = 99 -> "c" [] b = 100 -> "d"
      [] b = 101 -> "e" [] b = 102 -> "f" [] b = 103 -> "g" [] b = 104 -> "h"
      [] b = 105 -> "i"
      [] b = 65 -> "A" [] b = 66 -> "B" [] b = 67 -> "C" [] b = 68 -> "D"
      [] b = 69 -> "E" [] b = 70 -> "F" [] b = 71 -> "G" [] b = 72 -> "H"
      [] OTHER -> "?"

----------------------------------------------------------------------------
(* Piece / colour model *)

PieceKind == {"Pawn", "Knight", "Bishop", "Rook", "Queen", "King"}

Color == {"White", "Black"}

Piece(kind, color) == [kind |-> kind, color |-> color]

----------------------------------------------------------------------------
(* Coordinate model *)

\* enum File { A = 0, .., H }: the discriminants
File == 0 .. 7

\* enum Rank { One = 0, .., Eight }: the discriminants
Rank == 0 .. 7

\* Mutant: the upper-case base letter.
File_to_char_upper(file) == Char(U8(65 + file))

File_to_char(file) == Char(U8(97 + file))

Rank_to_char(rank) == Char(U8(49 + rank))

Position_new(file, rank) == [file |-> file, rank |-> rank]

\* Mutant: file and rank taken in each other's place.
Position_to_index_swapped(p) == U8(U8(U8(p.file + 2) * 10) + U8(p.rank + 1))

Position_to_index(p) == U8(U8(U8(p.rank + 2) * 10) + U8(p.file + 1))

\* The u8 arithmetic of to_index leaves 0..255 at some step (a panic in a
\* debug build, a wrapped result in a release build).
to_index_overflows(p) ==
    \/ p.rank + 2 > 255
    \/ (p.rank + 2) * 10 > 255
    \/ p.file + 1 > 255
    \/ (p.rank + 2) * 10 + (p.file + 1) > 255

\* write!(f, "{}{}", file.to_char(), rank.to_char())
Position_fmt(p) == File_to_char(p.file) \o Rank_to_char(p.rank)

----------------------------------------------------------------------------
(* Board grid *)

Empty == [tag |-> "Empty"]

Occupied(piece) == [tag |-> "Occupied", piece |-> piece]

OffBoard == [tag |-> "OffBoard"]

SquaresLen == 120

SquareIndices == 0 .. (SquaresLen - 1)

WhiteKingSide == 1

WhiteQueenSide == 2

BlackKingSide == 4

BlackQueenSide == 8

\* Mutant: the counts of the starting position instead of the derived default.
PieceKindCounts_start ==
    [pawns |-> 8, knights |-> 2, bishops |-> 2, rooks |-> 2, queens |-> 1, kings |-> 1]

PieceKindCounts_default ==
    [pawns |-> 0, knights |-> 0, bishops |-> 0, rooks |-> 0, queens |-> 0, kings |-> 0]

ColoredData_default(t) == [white |-> t, black |-> t, both |-> t]

\* The Board literal Board::new starts from.
Board_literal ==
    /\ squares = [i \in SquareIndices |-> OffBoard]
    /\ turn = "White"
    /\ en_passant_target = None
    /\ pawns = ColoredData_default(0)
    /\ pieces = ColoredData_default(PieceKindCounts_default)
    /\ big_pieces = ColoredData_default(0)
    /\ major_pieces = ColoredData_default(0)
    /\ minor_pieces = ColoredData_default(0)
    /\ kings = [white |-> Position_new(4, 0), black |-> Position_new(4, 7)]
    /\ position_key = 0
    /\ castling_rights =
           BitOr(BitOr(BitOr(WhiteKingSide, WhiteQueenSide), BlackKingSide), BlackQueenSide)
    /\ fifty_moves = 0
    /\ history = <<>>
    /\ ply = 0

----------------------------------------------------------------------------
(* Board::new *)

\* Mutant: the file offset left out.
new_index_unpadded(rank, file) == (rank + 2) * 10 + file

\* `let index = ((rank + 2) * 10 + (file + 1)) as usize` of the clearing loop
new_index(rank, file) == (rank + 2) * 10 + (file + 1)

\* The `place` closure: the grid after board.squares[index] = Occupied(piece).
place(sq, file, rank, piece) ==
    [sq EXCEPT ![Position_to_index(Position_new(file, rank))] = Occupied(piece)]

\* An indexing of board.squares outside 0..119 panics.
InBounds(index) == index \in SquareIndices

\* Mutant: king and queen in each other's place.
white_back_rank_swapped ==
    << <<0, "Rook">>, <<1, "Knight">>, <<2, "Bishop">>, <<3, "King">>,
       <<4, "Queen">>, <<5, "Bishop">>, <<6, "Knight">>, <<7, "Rook">> >>

white_back_rank ==
    << <<0, "Rook">>, <<1, "Knight">>, <<2, "Bishop">>, <<3, "Queen">>,
       <<4, "King">>, <<5, "Bishop">>, <<6, "Knight">>, <<7, "Rook">> >>

\* Mutant: knights and bishops in each other's place.
black_back_rank_swapped ==
    << <<0, "Rook">>, <<1, "Bishop">>, <<2, "Knight">>, <<3, "Queen">>,
       <<4, "King">>, <<5, "Knight">>, <<6, "Bishop">>, <<7, "Rook">> >>

black_back_rank ==
    << <<0, "Rook">>, <<1, "Knight">>, <<2, "Bishop">>, <<3, "Queen">>,
       <<4, "King">>, <<5, "Bishop">>, <<6, "Knight">>, <<7, "Rook">> >>

\* The array [File::A, .., File::H] both pawn loops iterate.
pawn_files == <<0, 1, 2, 3, 4, 5, 6, 7>>

\* One iteration of `for rank in 0..8 { for file in 0..8 { squares[index] = Empty } }`.
ClearSquare ==
    /\ pc = "clear"
    /\ LET index == new_index(new_rank, new_file)
           last_file == new_file + 1 = 8
           last == last_file /\ new_rank + 1 = 8
       IN  IF InBounds(index)
           THEN /\ squares' = [squares EXCEPT ![index] = Empty]
                /\ new_file' = IF last_file THEN 0 ELSE new_file + 1
                /\ new_rank' = IF last_file THEN new_rank + 1 ELSE new_rank
                /\ pc' = IF last THEN "white_back" ELSE "clear"
           ELSE /\ pc' = "panic"
                /\ UNCHANGED <<squares, new_file, new_rank>>
    /\ UNCHANGED <<turn, en_passant_target, pawns, pieces, big_pieces, major_pieces,
                   minor_pieces, kings, position_key, castling_rights, fifty_moves,
                   history, ply, new_i, fmt_vars, coord_vars>>

\* One iteration of a placement loop: place(&mut board, file, rank, piece).
PlaceStep(here, next, file, rank, piece, len) ==
    /\ pc = here
    /\ IF InBounds(Position_to_index(Position_new(file, rank)))
       THEN /\ squares' = place(squares, file, rank, piece)
            /\ new_i' = IF new_i = len THEN 1 ELSE new_i + 1
            /\ pc' = IF new_i = len THEN next ELSE here
       ELSE /\ pc' = "panic"
            /\ UNCHANGED <<squares, new_i>>
    /\ UNCHANGED <<turn, en_passant_target, pawns, pieces, big_pieces, major_pieces,
                   minor_pieces, kings, position_key, castling_rights, fifty_moves,
                   history, ply, new_rank, new_file, fmt_vars, coord_vars>>

\* for (file, kind) in white_back_rank { place(.., file, Rank::One, White kind) }
PlaceWhiteBackRank ==
    /\ pc = "white_back"
    /\ PlaceStep("white_back", "white_pawns", white_back_rank[new_i][1], 0,
                 Piece(white_back_rank[new_i][2], "White"), Len(white_back_rank))

\* Mutant: the White pawns placed on Rank::One.
PlaceWhitePawns_rank_one ==
    /\ pc = "white_pawns"
    /\ PlaceStep("white_pawns", "black_back", pawn_files[new_i], 0,
                 Piece("Pawn", "White"), Len(pawn_files))

\* for file in [A..H] { place(.., file, Rank::Two, White Pawn) }
PlaceWhitePawns ==
    /\ pc = "white_pawns"
    /\ PlaceStep("white_pawns", "black_back", pawn_files[new_i], 1,
                 Piece("Pawn", "White"), Len(pawn_files))

\* for (file, kind) in black_back_rank { place(.., file, Rank::Eight, Black kind) }
PlaceBlackBackRank ==
    /\ pc = "black_back"
    /\ PlaceStep("black_back", "black_pawns", black_back_rank[new_i][1], 7,
                 Piece(black_back_rank[new_i][2], "Black"), Len(black_back_rank))

\* for file in [A..H] { place(.., file, Rank::Seven, Black Pawn) }
PlaceBlackPawns ==
    /\ pc = "black_pawns"
    /\ PlaceStep("black_pawns", "return", pawn_files[new_i], 6,
                 Piece("Pawn", "Black"), Len(pawn_files))

\* `board`: Board::new returns the board to main.
Return ==
    /\ pc = "return"
    /\ pc' = "board"
    /\ UNCHANGED <<board_vars, new_vars, fmt_vars, coord_vars>>

\* Board::new has returned: the states in which a Board exists.
Constructed == pc \in {"board", "fmt", "footer", "exit"}

----------------------------------------------------------------------------
(* Display for Board, as main runs it on the board Board::new returned *)

\* Mutant: the rank offset of a grid with one row of padding.
fmt_index_one_row(rank, file) == (rank + 1) * 10 + (file + 1)

\* `let index = ((rank + 2) * 10 + (file + 1)) as usize` of the rendering loop
fmt_index(rank, file) == (rank + 2) * 10 + (file + 1)

\* `let is_light = (file + rank) % 2 == 0` and the background chosen from it
fmt_background(rank, file) == IF (file + rank) % 2 = 0 THEN 180 ELSE 120

\* The cell written for a square: three spaces, or the piece between two spaces.
fmt_cell(square, bg) ==
    [bg |-> bg,
     content |-> IF square.tag = "Occupied" THEN square.piece ELSE None]

\* One iteration of the inner loop of fmt, with the rank label written before
\* the first cell of a row and the line break after the last.
FmtSquare ==
    /\ pc = "fmt"
    /\ LET index == fmt_index(fmt_rank, fmt_file)
           label == IF fmt_file = 0 THEN <<[label |-> fmt_rank + 1]>> ELSE <<>>
           break == IF fmt_file = 7 THEN <<"\n">> ELSE <<>>
       IN  IF InBounds(index)
           THEN /\ fmt_read' = Append(fmt_read, index)
                /\ fmt_out' = fmt_out \o label
                                \o <<fmt_cell(squares[index],
                                              fmt_background(fmt_rank, fmt_file))>>
                                \o break
                /\ fmt_file' = IF fmt_file = 7 THEN 0 ELSE fmt_file + 1
                /\ fmt_rank' = IF fmt_file = 7 THEN fmt_rank - 1 ELSE fmt_rank
                /\ pc' = IF fmt_file = 7 /\ fmt_rank = 0 THEN "footer" ELSE "fmt"
           ELSE /\ pc' = "panic"
                /\ UNCHANGED fmt_vars
    /\ UNCHANGED <<board_vars, new_vars, coord_vars>>

\* writeln!(f, "   a  b  c  d  e  f  g  h")
FmtFooter ==
    /\ pc = "footer"
    /\ fmt_out' = fmt_out \o <<"   a  b  c  d  e  f  g  h", "\n">>
    /\ pc' = "exit"
    /\ UNCHANGED <<board_vars, new_vars, fmt_rank, fmt_file, fmt_read, coord_vars>>

\* println!("{}", board) in main: the rendering starts at rank 8, file a.
Println ==
    /\ pc = "board"
    /\ pc' = "fmt"
    /\ UNCHANGED <<board_vars, new_vars, fmt_vars, coord_vars>>

----------------------------------------------------------------------------
(* main *)

Init ==
    /\ pc = "clear"
    /\ Board_literal
    /\ new_rank = 0
    /\ new_file = 0
    /\ new_i = 1
    /\ fmt_rank = 7
    /\ fmt_file = 0
    /\ fmt_out = <<>>
    /\ fmt_read = <<>>
    /\ pos = None
    /\ pos_index = <<>>
    /\ pos_string = <<>>

Next ==
    \/ ClearSquare
    \/ PlaceWhiteBackRank
    \/ PlaceWhitePawns
    \/ PlaceBlackBackRank
    \/ PlaceBlackPawns
    \/ Return
    \/ Println
    \/ FmtSquare
    \/ FmtFooter

Spec == Init /\ [][Next]_vars

----------------------------------------------------------------------------
(* The coordinate functions applied to every Position *)

InitCoord ==
    /\ pc = "coord"
    /\ Board_literal
    /\ new_rank = 0
    /\ new_file = 0
    /\ new_i = 1
    /\ fmt_rank = 7
    /\ fmt_file = 0
    /\ fmt_out = <<>>
    /\ fmt_read = <<>>
    /\ pos \in {Position_new(f, r) : f \in File, r \in Rank}
    /\ pos_index = <<>>
    /\ pos_string = <<>>

\* pos.to_index()
Call_to_index ==
    /\ pc = "coord"
    /\ pos_index = <<>>
    /\ pos_index' = <<Position_to_index(pos)>>
    /\ UNCHANGED <<pc, board_vars, new_vars, fmt_vars, pos, pos_string>>

\* pos.to_string(), through Display for Position
Call_to_string ==
    /\ pc = "coord"
    /\ pos_string = <<>>
    /\ pos_string' = <<Position_fmt(pos)>>
    /\ UNCHANGED <<pc, board_vars, new_vars, fmt_vars, pos, pos_index>>

NextCoord ==
    \/ Call_to_index
    \/ Call_to_string

SpecCoord == InitCoord /\ [][NextCoord]_vars

----------------------------------------------------------------------------
(* Properties of the coordinate model (checked under SpecCoord) *)

\* The 64 cells of the playable region: rows 2..9, columns 1..8 of the grid.
ValidCells == {r * 10 + c : r \in 2 .. 9, c \in 1 .. 8}

AllPositions == {Position_new(f, r) : f \in File, r \in Rank}

\* C1: for every file and rank in 0..7, to_index returns
\* (rank + 2) * 10 + (file + 1); no other position has the same index, the
\* index is one of the 64 cells r*10 + c with r in 2..9 and c in 1..8, every
\* such cell is the index of some position, and a1 = 21, h1 = 28, a8 = 91,
\* h8 = 98, e4 = 55.
C1_ToIndexFormula ==
    (pc = "coord" /\ pos_index # <<>>) =>
        /\ pos_index[1] = (pos.rank + 2) * 10 + (pos.file + 1)
        /\ pos_index[1] \in ValidCells
        /\ \A q \in AllPositions : q # pos => Position_to_index(q) # pos_index[1]
        /\ \A k \in ValidCells : \E q \in AllPositions : Position_to_index(q) = k
        /\ Cardinality(ValidCells) = 64
        /\ (pos = Position_new(0, 0) => pos_index[1] = 21)
        /\ (pos = Position_new(7, 0) => pos_index[1] = 28)
        /\ (pos = Position_new(0, 7) => pos_index[1] = 91)
        /\ (pos = Position_new(7, 7) => pos_index[1] = 98)
        /\ (pos = Position_new(4, 3) => pos_index[1] = 55)

\* to_index was called on h8 and returned 98.
C1_Witness ==
    pc = "coord" /\ pos = Position_new(7, 7) /\ pos_index = <<98>>

FileLetters == <<"a", "b", "c", "d", "e", "f", "g", "h">>

RankDigits == <<"1", "2", "3", "4", "5", "6", "7", "8">>

\* C10: rendering a Position yields exactly two characters, the file letter
\* 'a'..'h' of its file followed by the rank digit '1'..'8' of its rank, and
\* no other position renders to the same string.
C10_PositionDisplay ==
    (pc = "coord" /\ pos_string # <<>>) =>
        /\ Len(pos_string[1]) = 2
        /\ pos_string[1] = FileLetters[pos.file + 1] \o RankDigits[pos.rank + 1]
        /\ \A q \in AllPositions : q # pos => Position_fmt(q) # pos_string[1]

\* e4 was rendered, as "e4".
C10_Witness ==
    pc = "coord" /\ pos = Position_new(4, 3) /\ pos_string = <<"e4">>

----------------------------------------------------------------------------
(* Properties of the constructed board (checked under Spec) *)

\* The padding of the 120-cell grid: rows 0, 1, 10, 11 and columns 0 and 9.
PaddingCells ==
    {i \in SquareIndices : i \div 10 \in {0, 1, 10, 11} \/ i % 10 \in {0, 9}}

OnBoard(square) == square.tag \in {"Empty", "Occupied"}

Holds(i, kind, color) == squares[i] = Occupied(Piece(kind, color))

\* C2: in the board Board::new returns and in every later state, each of the
\* 64 cells (rank + 2) * 10 + (file + 1) holds Empty or Occupied and each of
\* the other 56 cells (rows 0, 1, 10, 11, columns 0 and 9) holds OffBoard.
C2_GridShape ==
    Constructed =>
        /\ \A r \in Rank, f \in File : OnBoard(squares[(r + 2) * 10 + (f + 1)])
        /\ \A i \in PaddingCells : squares[i] = OffBoard
        /\ PaddingCells = SquareIndices \ ValidCells
        /\ Cardinality(PaddingCells) = 56

\* The board was returned and rendered, with a piece on a1 and e4 empty.
C2_Witness ==
    pc = "exit" /\ squares[21].tag = "Occupied" /\ squares[55] = Empty

BackRankKinds ==
    <<"Rook", "Knight", "Bishop", "Queen", "King", "Bishop", "Knight", "Rook">>

\* C3: Board::new produces the standard starting layout: rank 1 holds White
\* R N B Q K B N R on files a..h, rank 8 the same kinds in Black, rank 2 White
\* Pawns, rank 7 Black Pawns, ranks 3 to 6 are Empty.
C3_StartingLayout ==
    Constructed =>
        \A f \in 0 .. 7 :
            /\ Holds(21 + f, BackRankKinds[f + 1], "White")
            /\ Holds(31 + f, "Pawn", "White")
            /\ squares[41 + f] = Empty
            /\ squares[51 + f] = Empty
            /\ squares[61 + f] = Empty
            /\ squares[71 + f] = Empty
            /\ Holds(81 + f, "Pawn", "Black")
            /\ Holds(91 + f, BackRankKinds[f + 1], "Black")

\* Board::new has returned with the Black queen on d8 and a White pawn on h2.
C3_Witness ==
    pc = "board" /\ Holds(94, "Queen", "Black") /\ Holds(38, "Pawn", "White")

\* C4: the board Board::new returns has White to move, no en-passant target,
\* castling_rights 15 (the union of the four rights 1, 2, 4, 8, pairwise
\* distinct single bits), fifty-move counter 0, ply 0 and an empty history.
C4_InitialScalars ==
    Constructed =>
        /\ turn = "White"
        /\ en_passant_target = None
        /\ castling_rights = 15
        /\ <<WhiteKingSide, WhiteQueenSide, BlackKingSide, BlackQueenSide>> = <<1, 2, 4, 8>>
        /\ \A right \in {WhiteKingSide, WhiteQueenSide, BlackKingSide, BlackQueenSide} :
               BitOr(castling_rights, right) = castling_rights
        /\ fifty_moves = 0
        /\ ply = 0
        /\ history = <<>>

\* Board::new has returned a board with all the pieces placed and White to move.
C4_Witness ==
    pc = "board" /\ turn = "White" /\ castling_rights = 15 /\ Holds(98, "Rook", "Black")

KingCells(color) == {i \in SquareIndices : Holds(i, "King", color)}

KingCache(color) == IF color = "White" THEN kings.white ELSE kings.black

\* C5: in every state of the constructed board, for each colour the cached
\* king position is the one cell of the grid holding that colour's King;
\* these are e1 for White and e8 for Black.
C5_KingCache ==
    Constructed =>
        /\ \A color \in Color :
               KingCells(color) = {(KingCache(color).rank + 2) * 10 + KingCache(color).file + 1}
        /\ kings.white = Position_new(4, 0)
        /\ kings.black = Position_new(4, 7)

\* The board was returned with the kings on cells 25 (e1) and 95 (e8).
C5_Witness ==
    Constructed /\ KingCells("White") = {25} /\ KingCells("Black") = {95}

----------------------------------------------------------------------------
(* The aggregate counters against a scan of the grid *)

ColorsOf(side) == IF side = "both" THEN Color ELSE {side}

\* The cells holding a piece of one of `kinds` and of side "White", "Black" or "both".
Scan(side, kinds) ==
    {i \in SquareIndices :
        /\ squares[i].tag = "Occupied"
        /\ squares[i].piece.kind \in kinds
        /\ squares[i].piece.color \in ColorsOf(side)}

Count(side, kinds) == Cardinality(Scan(side, kinds))

Side(data, side) ==
    CASE side = "White" -> data.white
      [] side = "Black" -> data.black
      [] side = "both" -> data.both

\* The cached counters of one side equal what a scan of the grid gives.  A
\* bitboard has one bit per pawn, so it is 0 exactly when the scan finds none.
CountersMatch(side) ==
    /\ Side(pieces, side).pawns = Count(side, {"Pawn"})
    /\ Side(pieces, side).knights = Count(side, {"Knight"})
    /\ Side(pieces, side).bishops = Count(side, {"Bishop"})
    /\ Side(pieces, side).rooks = Count(side, {"Rook"})
    /\ Side(pieces, side).queens = Count(side, {"Queen"})
    /\ Side(pieces, side).kings = Count(side, {"King"})
    /\ (Side(pawns, side) = 0) <=> (Scan(side, {"Pawn"}) = {})
    /\ Side(big_pieces, side) = Count(side, PieceKind \ {"Pawn"})
    /\ Side(major_pieces, side) = Count(side, {"Rook", "Queen"})
    /\ Side(minor_pieces, side) = Count(side, {"Knight", "Bishop"})

\* C6: in every state of the constructed board the cached aggregate counters
\* (per-colour count of each piece kind, pawn bitboard, big, major and minor
\* piece counts) equal the values obtained by scanning the grid.
C6_CountersMatchGrid ==
    Constructed => \A side \in Color : CountersMatch(side)

AllZero(data) == data.white = 0 /\ data.black = 0 /\ data.both = 0

CountsZero(counts) ==
    /\ counts.pawns = 0
    /\ counts.knights = 0
    /\ counts.bishops = 0
    /\ counts.rooks = 0
    /\ counts.queens = 0
    /\ counts.kings = 0

\* C7: every piece-kind count, every big, major and minor piece count, every
\* pawn bitboard (white, black and both) and the position key is 0 in the
\* board Board::new returns, and in every state of its construction: placing
\* the pieces changes none of them.
C7_CountersStayZero ==
    /\ CountsZero(pieces.white) /\ CountsZero(pieces.black) /\ CountsZero(pieces.both)
    /\ AllZero(big_pieces)
    /\ AllZero(major_pieces)
    /\ AllZero(minor_pieces)
    /\ AllZero(pawns)
    /\ position_key = 0

\* Board::new has returned a grid of 32 pieces, 16 of them pawns, with the
\* cached pawn counts still 0.
C7_Witness ==
    /\ pc = "board"
    /\ Count("both", PieceKind) = 32
    /\ Count("both", {"Pawn"}) = 16
    /\ pieces.both.pawns = 0
    /\ big_pieces.white = 0

----------------------------------------------------------------------------
(* The order of construction (checked under Spec) *)

Placing == {"white_back", "white_pawns", "black_back", "black_pawns"}

\* The cells a step writes a different value to.
Changed == {i \in SquareIndices : squares'[i] # squares[i]}

OccupiedCells == {i \in SquareIndices : squares[i].tag = "Occupied"}

\* C11: Board::new starts from 120 OffBoard cells; each step of the clearing
\* loop turns one of the 64 valid cells from OffBoard to Empty while no cell
\* is Occupied; when the first piece is placed exactly the 64 valid cells are
\* Empty and the rest OffBoard; each placement writes one cell that is Empty
\* at that moment and makes it Occupied, so the 32 placements fill 32
\* different cells.
C11_ConstructionOrder ==
    [][ /\ (pc = "clear" /\ new_rank = 0 /\ new_file = 0) =>
               \A i \in SquareIndices : squares[i] = OffBoard
        /\ pc = "clear" =>
               /\ OccupiedCells = {}
               /\ \E i \in ValidCells :
                      /\ Changed = {i}
                      /\ squares[i] = OffBoard
                      /\ squares'[i] = Empty
        /\ (pc = "clear" /\ pc' # "clear") =>
               /\ pc' = "white_back"
               /\ \A i \in SquareIndices :
                      squares'[i] = IF i \in ValidCells THEN Empty ELSE OffBoard
        /\ pc \in Placing =>
               \E i \in ValidCells :
                   /\ Changed = {i}
                   /\ squares[i] = Empty
                   /\ squares'[i].tag = "Occupied"
        /\ pc' = "return" =>
               Cardinality({i \in SquareIndices : squares'[i].tag = "Occupied"}) = 32
        /\ pc \notin Placing \cup {"clear"} => Changed = {}
      ]_vars

\* The 29th placement is about to be made: 28 pieces stand, e7 is still Empty.
C11_Witness ==
    /\ pc = "black_pawns"
    /\ new_i = 5
    /\ Cardinality(OccupiedCells) = 28
    /\ squares[85] = Empty

----------------------------------------------------------------------------
(* Index arithmetic and the order of the rendering (checked under Spec) *)

\* The index the rendering reads n-th (n from 0): rank 8 down to rank 1, and
\* file a to h within a rank.
NthRendered(n) == (9 - (n \div 8)) * 10 + (n % 8) + 1

\* The elements of a sequence.
Range(seq) == {seq[k] : k \in 1 .. Len(seq)}

\* C12: to_index never overflows its u8 result (its maximum is 98); every
\* cell of squares that Board::new writes and that the rendering reads is one
\* of the 64 valid cells (within 21..98, column 1..8, below 120), so no
\* indexing panics; the rendering reads each of the 64 valid cells exactly
\* once, rank 8 down to rank 1 and file a to h within a rank, and never
\* reads an OffBoard cell.
C12_IndicesInBounds ==
    [][ /\ \A q \in AllPositions :
               /\ ~to_index_overflows(q)
               /\ Position_to_index(q) <= 98
        /\ pc' # "panic"
        /\ \A i \in Changed :
               /\ pc \in Placing \cup {"clear"}
               /\ i \in 21 .. 98
               /\ i % 10 \in 1 .. 8
               /\ i \in ValidCells
               /\ i < SquaresLen
        /\ pc = "fmt" =>
               LET n == Len(fmt_read)
               IN  /\ n < 64
                   /\ fmt_read' = Append(fmt_read, NthRendered(n))
                   /\ NthRendered(n) \in ValidCells
                   /\ NthRendered(n) \in 21 .. 98
                   /\ NthRendered(n) < SquaresLen
                   /\ squares[NthRendered(n)] # OffBoard
        /\ pc # "fmt" => fmt_read' = fmt_read
        /\ pc' \in {"footer", "exit"} =>
               /\ Len(fmt_read') = 64
               /\ Range(fmt_read') = ValidCells
               /\ fmt_read'[1] = 91
               /\ fmt_read'[8] = 98
               /\ fmt_read'[57] = 21
               /\ fmt_read'[64] = 28
      ]_vars

\* The rendering has read all 64 cells, a8 first and h1 last.
C12_Witness ==
    /\ pc = "exit"
    /\ Len(fmt_read) = 64
    /\ fmt_read[1] = 91
    /\ fmt_read[64] = 28

====
